---- MODULE Spec2Model ----
(***************************************************************************)
(* Model of pyega3.data_file.DataFile: the slice planner, the slice fetch  *)
(* with resume, the whole-file attempt (download_file) and the retry loop  *)
(* (download_file_retry).                                                  *)
(*                                                                         *)
(* A file's content is a sequence of runs <<o, n>>: n bytes that equal the *)
(* remote file's bytes o .. o+n-1, or n bytes of foreign data when o = -1. *)
(* The remote payload of totalSize bytes is the single run <<0,totalSize>>.*)
(***************************************************************************)
EXTENDS Integers, Sequences, FiniteSets, TLC

VARIABLES
    display_file_name,  \* DataFile._display_file_name  (NoName = None)
    file_name,          \* DataFile._file_name
    file_size,          \* DataFile._file_size          (NoSize = None)
    unencrypted_checksum, \* DataFile._unencrypted_checksum (NoSum = None)
    temporary_files,    \* DataFile.temporary_files: set of slice names
    delete_flag,        \* DataFile.TEMPORARY_FILES_SHOULD_BE_DELETED
    num_connections,    \* argument of download_file_retry
    max_retries,        \* argument of download_file_retry
    pc,                 \* position of the caller thread
    num_retries,        \* local of download_file_retry
    raised,             \* what download_file_retry raised (NoErr = nothing)
    params,             \* local of download_file: the slice plan
    th,                 \* per slice: its worker is "ready" (running), "returned" or "raised"
    existing_size,      \* per slice: local existing_size of its fetch
    slice_err,          \* per slice: the exception its fetch raised
    results,            \* local of download_file: returned part file names
    in_order,           \* ghost: the fetches of the attempt have ended in plan order so far
    out,                \* disk: the output file (<<>> when absent)
    sidecar,            \* disk: the .md5 file beside the output file
    tmp,                \* disk: slice name -> content of its temporary file
    requests,           \* ghost: per slice, the Range headers its fetch has sent
    meta_requests,      \* ghost: metadata requests of the current download_file call
    attempts,           \* ghost: download_file calls of the current run
    sleeps,             \* ghost: time.sleep calls of the current run
    last_err,           \* ghost: the exception of the latest failed attempt
    runs,               \* ghost: download_file_retry calls so far
    ret,                \* ghost: how the latest download_file call ended
    merged,             \* ghost: the latest download_file call ran the merge
    received_file_md5,  \* local of download_file
    total_size,         \* local of download_file: file_size after line 88
    srv_name,           \* the archive: the file's stored name
    srv_size,           \* the archive: the file's declared size
    srv_sum,            \* the archive: the file's unencrypted checksum
    faults,             \* ghost: failures of the archive, the network and the disk so far
    failures            \* ghost: failed download_file calls of the current run

vars == <<display_file_name, file_name, file_size, unencrypted_checksum,
          temporary_files, delete_flag, num_connections, max_retries, pc,
          num_retries, raised, params, th, existing_size, slice_err, results,
          in_order, out, sidecar, tmp, requests, meta_requests, attempts, sleeps,
          last_err, runs, ret, merged, received_file_md5, total_size, srv_name, srv_size,
          srv_sum, faults, failures>>

-----------------------------------------------------------------------------
(* Program constants *)

IV_SIZE == 16
MIN_PARALLEL_SIZE == 104857600
MAX_CONNECTIONS == 128
MD5_HEX_LEN == 32

(* Bounds of the model *)

MaxSmallSize == 3       \* payload sizes 1..MaxSmallSize and threshold +- that
MaxSlices == 2          \* connection counts the attempt model asks for
MaxRetries == 1         \* max_retries is drawn from 0..MaxRetries, or is -1
MaxAttempts == 3        \* download_file calls in one run (a run with max_retries < 0
                        \* has no limit of its own)
MaxRuns == 2            \* download_file_retry calls in one behaviour
MaxFaults == 2          \* answers of the archive that are not the right one, requests
                        \* that fail and files another process truncates, in one behaviour

-----------------------------------------------------------------------------
(* Python helpers *)

Max(a, b) == IF a >= b THEN a ELSE b
Min(a, b) == IF a <= b THEN a ELSE b

\* math.ceil(a / b) for b > 0 (the float quotient is exact below 2^47)
CeilDiv(a, b) == -((-a) \div b)

\* list(range(0, stop, step)) for step > 0: len(range) = ceil(stop / step)
RangeFrom0(stop, step) ==
    [k \in 1..(IF stop <= 0 THEN 0 ELSE CeilDiv(stop, step)) |-> (k - 1) * step]

-----------------------------------------------------------------------------
(* The slice planner: download_file, lines 94-107 *)

\* the clamp without the small-file rule
EffectiveConnections_NoSmallFileRule(size, requested) ==
    Min(Max(requested, 1), MAX_CONNECTIONS)

\* the clamp and the small-file rule
EffectiveConnections(size, requested) ==
    IF size < MIN_PARALLEL_SIZE THEN 1
    ELSE Min(Max(requested, 1), MAX_CONNECTIONS)

ChunkLen(size, requested) == CeilDiv(size, EffectiveConnections(size, requested))

\* every slice as long as the chunk length, the last one too
SliceParam_NoMin(size, chunk_len, chunk_start_pos) ==
    [start |-> chunk_start_pos, length |-> chunk_len]

\* one (chunk_start_pos, length) pair of the params list
SliceParam(size, chunk_len, chunk_start_pos) ==
    [start |-> chunk_start_pos, length |-> Min(chunk_len, size - chunk_start_pos)]

\* the params list; range() raises ValueError on a zero step
PlanRaises(size, requested) == ChunkLen(size, requested) = 0

SlicePlan(size, requested) ==
    LET chunk_len == ChunkLen(size, requested)
        starts == RangeFrom0(size, chunk_len)
    IN  [k \in 1..Len(starts) |-> SliceParam(size, chunk_len, starts[k])]

-----------------------------------------------------------------------------
(* Files on disk *)

Bad == -1                       \* the origin of bytes that are not the remote file's

RECURSIVE Size(_)
Size(data) == IF data = <<>> THEN 0 ELSE data[1][2] + Size(Tail(data))

\* data followed by run, adjacent runs of consecutive remote bytes joined
AppendRun(data, run) ==
    IF run[2] <= 0 THEN data
    ELSE IF data # <<>> /\ run[1] # Bad /\ data[Len(data)][1] # Bad
            /\ data[Len(data)][1] + data[Len(data)][2] = run[1]
         THEN [data EXCEPT ![Len(data)] = <<data[Len(data)][1], data[Len(data)][2] + run[2]>>]
         ELSE Append(data, run)

RECURSIVE AppendAll(_, _)
AppendAll(data, more) ==
    IF more = <<>> THEN data ELSE AppendAll(AppendRun(data, more[1]), Tail(more))

\* the first size bytes of data
RECURSIVE Prefix(_, _)
Prefix(data, size) ==
    IF size <= 0 \/ data = <<>> THEN <<>>
    ELSE IF data[1][2] >= size THEN << <<data[1][1], size>> >>
         ELSE <<data[1]>> \o Prefix(Tail(data), size - data[1][2])

NoFile == [exists |-> FALSE, data |-> <<>>]
File(data) == [exists |-> TRUE, data |-> data]

\* a checksum string: its length and, for a digest, the bytes it is the digest of
NoSum == [len |-> -1, val |-> <<>>]
Digest(data) == [len |-> MD5_HEX_LEN, val |-> data]

\* pyega3.utils.md5(fname, file_size): the digest of the first file_size bytes
md5(file, size) == Digest(Prefix(file.data, size))

\* the name of a slice's temporary file: '-from-<start>-len-<length>.slice'
SliceName(p) == <<p.start, p.length>>

\* os.path.getsize of a temporary file, -1 when it is absent
TmpSize(disk, name) == IF name \in DOMAIN disk THEN Size(disk[name]) ELSE -1

RECURSIVE SumSizes(_, _)
SumSizes(disk, names) ==
    IF names = <<>> THEN 0 ELSE TmpSize(disk, names[1]) + SumSizes(disk, Tail(names))

Without(disk, names) == [n \in DOMAIN disk \ names |-> disk[n]]
WithFile(disk, name, data) ==
    [n \in DOMAIN disk \cup {name} |-> IF n = name THEN data ELSE disk[n]]

SeqRange(s) == {s[k] : k \in DOMAIN s}

\* pyega3.utils.merge_bin_files_on_disk: the parts in the order given
RECURSIVE MergedData(_, _)
MergedData(disk, names) ==
    IF names = <<>> THEN <<>>
    ELSE AppendAll(disk[names[1]], MergedData(disk, Tail(names)))

-----------------------------------------------------------------------------
(* Exceptions: kind, the two checksums or the two sizes of the message, and *)
(* the download_file call (of the current run) that raised it               *)

NoErr == [kind |-> "none", exp |-> NoSum, got |-> NoSum, n1 |-> 0, n2 |-> 0, at |-> 0]
Error(kind, at) == [NoErr EXCEPT !.kind = kind, !.at = at]
\* the message without the computed value
ChecksumError_ExpectedOnly(check_sum, received, at) ==
    [NoErr EXCEPT !.kind = "md5", !.exp = check_sum, !.at = at]

\* Exception(f"Download process expected md5 value '{check_sum}' but got '{received_file_md5}'")
ChecksumError(check_sum, received, at) ==
    [NoErr EXCEPT !.kind = "md5", !.exp = check_sum, !.got = received, !.at = at]
\* Exception(f"Slice error: received={total_received}, requested={length}, file=...")
SliceError(total_received, length, at) ==
    [NoErr EXCEPT !.kind = "slice", !.n1 = total_received, !.n2 = length, !.at = at]

-----------------------------------------------------------------------------
(* Metadata: load_metadata and the accessors *)

NoName == "None"
NoSize == -1

Fields == [d |-> display_file_name, f |-> file_name, s |-> file_size,
           c |-> unencrypted_checksum]

\* what GET /metadata/files/<id> can answer: the archive's record, possibly
\* with one field null, or no answer at all ("down")
FullResponse == [d |-> "display", f |-> srv_name, s |-> srv_size, c |-> srv_sum]
Responses ==
    { FullResponse,
      [FullResponse EXCEPT !.d = NoName],
      [FullResponse EXCEPT !.f = NoName],
      [FullResponse EXCEPT !.s = NoSize],
      [FullResponse EXCEPT !.c = NoSum],
      [FullResponse EXCEPT !.d = "down"] }

\* load_metadata: the fields after it, and the exception it raised
load_metadata(F, res) ==
    IF res.d = "down" THEN [F |-> F, err |-> "ConnectionError", calls |-> 1]
    ELSE IF res.d = NoName \/ res.c = NoSum
         THEN [F |-> F, err |-> "RuntimeError", calls |-> 1]
         ELSE [F |-> res, err |-> "none", calls |-> 1]

Loaded(F) == [F |-> F, err |-> "none", calls |-> 0]

\* the answers an accessor can get: none is asked for when the field is set
Answers(field_is_unset) == IF field_is_unset THEN Responses ELSE {FullResponse}

\* 1 when the accessor call a fetched the metadata and got another answer
\* than the archive's record
Faulty(a, res) == IF a.calls = 1 /\ res # FullResponse THEN 1 ELSE 0

\* an accessor that fetches the metadata on every use
size_AlwaysLoads(F, res) == load_metadata(F, res)

\* the accessors: hydrate when the field is None
name(F, res) == IF F.f = NoName THEN load_metadata(F, res) ELSE Loaded(F)
size(F, res) == IF F.s = NoSize THEN load_metadata(F, res) ELSE Loaded(F)
checksum(F, res) == IF F.c = NoSum THEN load_metadata(F, res) ELSE Loaded(F)

SetFields(F) ==
    /\ display_file_name' = F.d
    /\ file_name' = F.f
    /\ file_size' = F.s
    /\ unencrypted_checksum' = F.c

-----------------------------------------------------------------------------
(* The archive and the inputs *)

\* the remote payload: the declared size less the IV
Payload(declared) == IF declared > IV_SIZE THEN << <<0, declared - IV_SIZE>> >> ELSE <<>>
\* foreign data of the payload's size
Foreign(declared) == IF declared > IV_SIZE THEN << <<Bad, declared - IV_SIZE>> >> ELSE <<>>

\* the checksums the archive can declare: the payload's digest, a digest of
\* other data, and a string that is no digest
Checksums(declared) ==
    { Digest(Payload(declared)), Digest(Foreign(declared)), [len |-> 0, val |-> <<>>] }

DeclaredSizes == { IV_SIZE + MaxSmallSize, IV_SIZE + MIN_PARALLEL_SIZE + 1 }

\* delete_temporary_files iterates a set: any order
Orders(S) == { o \in [1..Cardinality(S) -> S] : \A i, j \in DOMAIN o : i # j => o[i] # o[j] }

RECURSIVE RemoveInOrder(_, _)
RemoveInOrder(disk, order) ==
    IF order = <<>> THEN disk
    ELSE IF order[1] \notin DOMAIN disk THEN disk     \* FileNotFoundError ends the loop
         ELSE RemoveInOrder(Without(disk, {order[1]}), Tail(order))

delete_temporary_files(disk, order) == RemoveInOrder(disk, order)

-----------------------------------------------------------------------------
(* download_file_retry *)

\* a DataFile as constructed, the archive's record of the file, the disk, and
\* the arguments of download_file_retry with max_retries drawn from limits
InitWith(limits) ==
    /\ srv_name \in {"f", "f.gpg"}
    /\ srv_size \in DeclaredSizes
    /\ srv_sum \in Checksums(srv_size)
    /\ \E F \in { FullResponse,
                  [FullResponse EXCEPT !.c = NoSum],
                  [d |-> NoName, f |-> NoName, s |-> NoSize, c |-> NoSum] } :
          /\ display_file_name = F.d
          /\ file_name = F.f
          /\ file_size = F.s
          /\ unencrypted_checksum = F.c
    /\ temporary_files = {}
    /\ delete_flag \in BOOLEAN
    /\ num_connections = MaxSlices
    /\ max_retries \in limits
    /\ pc = "start"
    /\ num_retries = 0
    /\ raised = NoErr
    /\ params = <<>>
    /\ th = <<>>
    /\ existing_size = <<>>
    /\ slice_err = <<>>
    /\ results = <<>>
    /\ in_order = TRUE
    /\ out \in { NoFile, File(Foreign(srv_size)) }
    /\ sidecar = NoSum
    /\ tmp = <<>>
    /\ requests = <<>>
    /\ meta_requests = 0
    /\ attempts = 0
    /\ sleeps = 0
    /\ last_err = NoErr
    /\ runs = 1
    /\ ret = "none"
    /\ merged = FALSE
    /\ received_file_md5 = NoSum
    /\ total_size = 0
    /\ faults = 0
    /\ failures = 0

\* runs with a limit on the retries
Init == InitWith(0..MaxRetries)

\* runs with no limit on the retries
UnlimitedInit == InitWith({-1})

inputs == <<srv_name, srv_size, srv_sum, delete_flag, num_connections, max_retries>>
attempt_locals == <<params, th, existing_size, slice_err, results, in_order, requests,
                    meta_requests, ret, merged, received_file_md5, total_size>>
disk == <<out, sidecar, tmp>>
fields == <<display_file_name, file_name, file_size, unencrypted_checksum>>
loop == <<num_retries, raised, attempts, sleeps, last_err, failures>>

\* lines 213-231: the name and size accessors, the .gpg rule
Enter ==
    /\ pc = "start"
    /\ \E res1 \in Answers(file_name = NoName) :
       \E res2 \in Answers(name(Fields, res1).F.s = NoSize) :
          LET a == name(Fields, res1)
              gpg == a.F.f = "f.gpg"
              b == IF a.err = "none" /\ a.F.f # NoName /\ ~gpg
                   THEN size(a.F, res2) ELSE Loaded(a.F)
          IN  /\ faults + Faulty(a, res1) + Faulty(b, res2) <= MaxFaults
              /\ faults' = faults + Faulty(a, res1) + Faulty(b, res2)
              /\ SetFields(b.F)
              /\ IF a.err # "none" THEN pc' = "crashed" /\ raised' = Error(a.err, 0)
                 ELSE IF a.F.f = NoName
                      THEN pc' = "crashed" /\ raised' = Error("AttributeError", 0)
                 ELSE IF gpg THEN pc' = "skipped" /\ raised' = NoErr
                 ELSE IF b.err # "none" THEN pc' = "crashed" /\ raised' = Error(b.err, 0)
                 ELSE pc' = "attempt" /\ raised' = NoErr
    /\ UNCHANGED <<inputs, attempt_locals, disk, temporary_files, num_retries,
                   attempts, sleeps, last_err, runs, failures>>

\* the except clause with the limit tested by >=
Caught_AtLeast(e, files) ==
    /\ last_err' = e
    /\ failures' = failures + 1
    /\ IF num_retries >= max_retries
       THEN /\ pc' = "raised"
            /\ raised' = e
            /\ IF delete_flag
               THEN \E order \in Orders(temporary_files) :
                       tmp' = delete_temporary_files(files, order)
               ELSE tmp' = files
       ELSE /\ pc' = "sleep"
            /\ raised' = raised
            /\ tmp' = files

\* the except clause going straight to the next attempt
Caught_NoSleep(e, files) ==
    /\ last_err' = e
    /\ failures' = failures + 1
    /\ pc' = "attempt"
    /\ raised' = raised
    /\ tmp' = files

\* the except clause raising a new exception in place of the one caught
Caught_Wrapped(e, files) ==
    /\ last_err' = e
    /\ failures' = failures + 1
    /\ IF num_retries = max_retries
       THEN /\ pc' = "raised"
            /\ raised' = Error("RetryExhausted", e.at)
            /\ tmp' = files
       ELSE /\ pc' = "sleep"
            /\ raised' = raised
            /\ tmp' = files

\* lines 252-261: the except clause, up to the sleep
Caught(e, files) ==
    /\ last_err' = e
    /\ failures' = failures + 1
    /\ IF num_retries = max_retries
       THEN /\ pc' = "raised"
            /\ raised' = e
            /\ IF delete_flag
               THEN \E order \in Orders(temporary_files) :
                       tmp' = delete_temporary_files(files, order)
               ELSE tmp' = files
       ELSE /\ pc' = "sleep"
            /\ raised' = raised
            /\ tmp' = files

\* a sleep that does not count the retry
Sleep_NoCount ==
    /\ pc = "sleep"
    /\ sleeps' = sleeps + 1
    /\ num_retries' = num_retries
    /\ pc' = "attempt"
    /\ UNCHANGED <<inputs, attempt_locals, disk, fields, temporary_files, raised,
                   attempts, last_err, runs, faults, failures>>

\* lines 259-261: time.sleep(retry_wait); num_retries += 1
Sleep ==
    /\ pc = "sleep"
    /\ sleeps' = sleeps + 1
    /\ num_retries' = num_retries + 1
    /\ pc' = "attempt"
    /\ UNCHANGED <<inputs, attempt_locals, disk, fields, temporary_files, raised,
                   attempts, last_err, runs, faults, failures>>

-----------------------------------------------------------------------------
(* download_file *)

\* line 90: the pre-check
LocalFileIsGood(file, nbytes, check_sum) == file.exists /\ md5(file, nbytes) = check_sum

NoSlices ==
    /\ requests' = <<>>
    /\ params' = <<>>
    /\ th' = <<>>
    /\ existing_size' = <<>>
    /\ slice_err' = <<>>
    /\ results' = <<>>
    /\ in_order' = TRUE

\* line 250 and lines 76-112 up to the dispatch of the slices
BeginAttempt ==
    /\ pc = "attempt"
    /\ attempts < MaxAttempts
    /\ attempts' = attempts + 1
    /\ merged' = FALSE
    /\ received_file_md5' = NoSum
    /\ \E res1 \in Answers(file_size = NoSize) :
       \E res2 \in Answers(size(Fields, res1).F.c = NoSum) :
          LET a == size(Fields, res1)
              b == IF a.err = "none" THEN checksum(a.F, res2) ELSE Loaded(a.F)
              size_ == a.F.s - IV_SIZE
              check_sum == b.F.c
              err == IF a.err # "none" THEN a.err
                     ELSE IF b.err # "none" THEN b.err
                     ELSE IF a.F.s = NoSize THEN "TypeError"
                     ELSE "none"
          IN  /\ faults + Faulty(a, res1) + Faulty(b, res2) <= MaxFaults
              /\ faults' = faults + Faulty(a, res1) + Faulty(b, res2)
              /\ SetFields(b.F)
              /\ meta_requests' = a.calls + b.calls
              /\ IF err # "none"
                 THEN /\ Caught(Error(err, attempts'), tmp)
                      /\ NoSlices
                      /\ total_size' = 0
                      /\ ret' = "raised"
                 ELSE IF LocalFileIsGood(out, size_, check_sum)
                 THEN /\ pc' = "done"
                      /\ NoSlices
                      /\ total_size' = size_
                      /\ ret' = "shortcut"
                      /\ UNCHANGED <<raised, last_err, tmp, failures>>
                 ELSE IF PlanRaises(size_, num_connections)
                 THEN /\ Caught(Error("ValueError", attempts'), tmp)
                      /\ NoSlices
                      /\ total_size' = size_
                      /\ ret' = "raised"
                 ELSE /\ pc' = "inflight"
                      /\ params' = SlicePlan(size_, num_connections)
                      /\ th' = [k \in DOMAIN params' |-> "ready"]
                      /\ existing_size' = [k \in DOMAIN params' |-> 0]
                      /\ slice_err' = [k \in DOMAIN params' |-> NoErr]
                      /\ requests' = [k \in DOMAIN params' |-> <<>>]
                      /\ results' = <<>>
                      /\ in_order' = TRUE
                      /\ total_size' = size_
                      /\ ret' = "none"
                      /\ UNCHANGED <<raised, last_err, tmp, failures>>
    /\ UNCHANGED <<inputs, out, sidecar, temporary_files, num_retries, sleeps,
                   runs>>

-----------------------------------------------------------------------------
(* download_file_slice *)

\* line 156
ExistingSize(files, file) == IF file \in DOMAIN files THEN Size(files[file]) ELSE 0

\* a Range header that asks for the whole slice again
RangeHeader_FromStart(start_pos, existing, length) ==
    [first |-> start_pos, last |-> start_pos + length - 1]

\* line 166: the Range header, first and last byte
RangeHeader(start_pos, existing, length) ==
    [first |-> start_pos + existing, last |-> start_pos + length - 1]

\* lines 162-163
AlreadyComplete(existing, length) == existing = length

\* what the archive can stream for a Range header: the bytes asked for, fewer,
\* one more, other bytes; a header whose first byte is past its last is
\* ignored (the whole payload); "down" is a request that fails
RightBody(range) ==
    LET n == range.last - range.first + 1
    IN  IF n > 0 THEN << <<range.first, n>> >> ELSE Payload(srv_size)

WrongBodies(range) ==
    LET n == range.last - range.first + 1
    IN  IF n > 0
        THEN { IF n \div 2 > 0 THEN << <<range.first, n \div 2>> >> ELSE <<>>,
               << <<range.first, n + 1>> >>, << <<Bad, n>> >> }
        ELSE {}

Bodies(range, budget) ==
    {RightBody(range)} \cup (IF budget > 0 THEN WrongBodies(range) ELSE {})

\* a size check that lets a file longer than the slice pass
SizeMismatch_ShortOnly(total_received, length) == total_received < length

\* line 174
SizeMismatch(total_received, length) == total_received # length

\* download_file_slice, lines 143-177: one worker's fetch of slice i
SliceFetch(i) ==
    /\ i \in DOMAIN th
    /\ th[i] = "ready"
    /\ in_order' = (in_order /\ \A k \in DOMAIN th : th[k] # "ready" => k < i)
    /\ LET p == params[i]
           file == SliceName(p)
           existing == ExistingSize(tmp, file)
           kept == IF existing > p.length THEN Without(tmp, {file}) ELSE tmp
           range == RangeHeader(p.start, existing, p.length)
       IN  IF p.start < 0 \/ p.length <= 0
           THEN /\ th' = [th EXCEPT ![i] = "raised"]
                /\ slice_err' = [slice_err EXCEPT ![i] = Error("ValueError", attempts)]
                /\ UNCHANGED <<temporary_files, tmp, existing_size, requests, faults>>
           ELSE /\ temporary_files' = temporary_files \cup {file}
                /\ existing_size' = [existing_size EXCEPT ![i] = existing]
                /\ IF AlreadyComplete(existing, p.length)
                   THEN /\ th' = [th EXCEPT ![i] = "returned"]
                        /\ tmp' = kept
                        /\ UNCHANGED <<requests, slice_err, faults>>
                   ELSE /\ requests' = [requests EXCEPT ![i] = Append(@, range)]
                        /\ \/ /\ faults < MaxFaults            \* get_stream raises
                              /\ faults' = faults + 1
                              /\ th' = [th EXCEPT ![i] = "raised"]
                              /\ slice_err' = [slice_err EXCEPT ![i] =
                                    Error("ConnectionError", attempts)]
                              /\ tmp' = kept
                           \/ \E body \in Bodies(range, MaxFaults - faults) :
                                 LET before == IF file \in DOMAIN kept THEN kept[file] ELSE <<>>
                                     after == AppendAll(before, body)
                                     total_received == Size(after)
                                 IN  /\ faults' = faults + (IF body = RightBody(range) THEN 0 ELSE 1)
                                     /\ tmp' = WithFile(kept, file, after)
                                     /\ IF SizeMismatch(total_received, p.length)
                                        THEN /\ th' = [th EXCEPT ![i] = "raised"]
                                             /\ slice_err' = [slice_err EXCEPT ![i] =
                                                   SliceError(total_received, p.length, attempts)]
                                        ELSE /\ th' = [th EXCEPT ![i] = "returned"]
                                             /\ slice_err' = slice_err
    /\ UNCHANGED <<inputs, fields, loop, pc, params, results, out, sidecar,
                   meta_requests, runs, ret, merged, received_file_md5, total_size>>

-----------------------------------------------------------------------------
(* download_file: the pool, the merge and the verification *)

\* a with block that is left as soon as executor.map has raised or has
\* yielded every result
PoolDrained_NoWait(threads) ==
    \/ \A k \in DOMAIN threads : threads[k] = "returned"
    \/ \E k \in DOMAIN threads :
          /\ threads[k] = "raised"
          /\ \A j \in DOMAIN threads : j < k => threads[j] = "returned"

\* line 110: leaving the executor's with block waits for every worker
PoolDrained(threads) == \A k \in DOMAIN threads : threads[k] \in {"returned", "raised"}

\* a join that does not take the workers' exceptions
FirstRaised_Ignored(threads) == 0

\* lines 111-112: executor.map yields in plan order and raises the first failure
FirstRaised(threads) ==
    IF \E k \in DOMAIN threads : threads[k] = "raised"
    THEN CHOOSE k \in DOMAIN threads :
            /\ threads[k] = "raised"
            /\ \A j \in DOMAIN threads : threads[j] = "raised" => k <= j
    ELSE 0

\* results in another order than that of params when the fetches did not
\* end in that order (with two slices: the order in which they ended)
MapResults_AsCompleted(plan, ended_in_order, n) ==
    [k \in 1..n |-> SliceName(plan[IF ended_in_order THEN k ELSE n + 1 - k])]

\* lines 111-112: the first n results of executor.map, in the order of params
MapResults(plan, ended_in_order, n) ==
    [k \in 1..n |-> SliceName(plan[k])]

\* lines 109-114
JoinWorkers ==
    /\ pc = "inflight"
    /\ PoolDrained(th)
    /\ IF FirstRaised(th) # 0
       THEN /\ Caught(slice_err[FirstRaised(th)], tmp)
            /\ ret' = "raised"
            /\ results' = MapResults(params, in_order, FirstRaised(th) - 1)
       ELSE /\ pc' = "merge"
            /\ results' = MapResults(params, in_order, Len(params))
            /\ UNCHANGED <<raised, last_err, tmp, ret, failures>>
    /\ UNCHANGED <<inputs, fields, num_retries, attempts, sleeps, params, th,
                   existing_size, slice_err, in_order, out, sidecar, temporary_files,
                   requests, meta_requests, runs, merged, received_file_md5,
                   total_size, faults>>

\* line 117
SizesAddUp(downloaded_file_total_size, nbytes) == downloaded_file_total_size = nbytes

\* every expected checksum taken as a digest to compare with
not_valid_server_md5_Never(check_sum) == FALSE

\* line 120
not_valid_server_md5(check_sum) == check_sum.len # MD5_HEX_LEN

\* an accept condition that never rejects
Accepted_Always(received, check_sum) == TRUE

\* line 128
Accepted(received, check_sum) == received = check_sum \/ not_valid_server_md5(check_sum)

\* lines 116-138
Finish ==
    /\ pc = "merge"
    /\ LET check_sum == unencrypted_checksum
           missing == \E f \in SeqRange(results) : f \notin DOMAIN tmp
           do_merge == ~missing /\ SizesAddUp(SumSizes(tmp, results), total_size)
           out1 == IF do_merge THEN File(MergedData(tmp, results)) ELSE out
           tmp1 == IF do_merge THEN Without(tmp, SeqRange(results)) ELSE tmp
           received == md5(out1, total_size)
       IN  /\ merged' = do_merge
           /\ IF missing \/ ~out1.exists   \* os.path.getsize or md5 on no file
              THEN /\ Caught(Error("FileNotFoundError", attempts), tmp1)
                   /\ ret' = "raised"
                   /\ received_file_md5' = NoSum
                   /\ UNCHANGED <<out, sidecar>>
              ELSE /\ received_file_md5' = received
                   /\ IF Accepted(received, check_sum)
                      THEN /\ out' = out1
                           /\ sidecar' = received
                           /\ tmp' = tmp1
                           /\ pc' = "done"
                           /\ ret' = IF not_valid_server_md5(check_sum)
                                     THEN "accepted" ELSE "verified"
                           /\ UNCHANGED <<raised, last_err, failures>>
                      ELSE /\ out' = NoFile
                           /\ sidecar' = sidecar
                           /\ Caught(ChecksumError(check_sum, received, attempts), tmp1)
                           /\ ret' = "raised"
    /\ UNCHANGED <<inputs, fields, num_retries, attempts, sleeps, params, th,
                   existing_size, slice_err, results, in_order, temporary_files,
                   requests, meta_requests, runs, total_size, faults>>

\* another process on the same output directory empties a finished slice
\* file before the sizes are summed
ExternalTruncate ==
    /\ pc = "merge"
    /\ faults < MaxFaults
    /\ \E file \in SeqRange(results) :
          /\ file \in DOMAIN tmp
          /\ tmp[file] # <<>>
          /\ tmp' = WithFile(tmp, file, <<>>)
    /\ faults' = faults + 1
    /\ UNCHANGED <<inputs, fields, loop, pc, attempt_locals, out, sidecar,
                   temporary_files, runs>>

\* after a completed download the caller invokes download_file_retry again
\* on the same DataFile
Rerun ==
    /\ pc = "done"
    /\ runs < MaxRuns
    /\ runs' = runs + 1
    /\ pc' = "start"
    /\ num_retries' = 0
    /\ raised' = NoErr
    /\ attempts' = 0
    /\ sleeps' = 0
    /\ last_err' = NoErr
    /\ failures' = 0
    /\ NoSlices
    /\ meta_requests' = 0
    /\ ret' = "none"
    /\ merged' = FALSE
    /\ received_file_md5' = NoSum
    /\ total_size' = 0
    /\ UNCHANGED <<inputs, fields, disk, temporary_files, faults>>

Next ==
    \/ Enter
    \/ BeginAttempt
    \/ \E i \in 1..MAX_CONNECTIONS : SliceFetch(i)
    \/ JoinWorkers
    \/ Finish
    \/ ExternalTruncate
    \/ Sleep
    \/ Rerun

Spec == Init /\ [][Next]_vars

UnlimitedSpec == UnlimitedInit /\ [][Next]_vars

\* the caller thread and the pool's workers keep running: every request is
\* answered or fails, every sleep ends
FairSpec ==
    /\ Init
    /\ [][Next]_vars
    /\ WF_vars(Enter)
    /\ WF_vars(BeginAttempt)
    /\ WF_vars(\E i \in 1..MAX_CONNECTIONS : SliceFetch(i))
    /\ WF_vars(JoinWorkers)
    /\ WF_vars(Finish)
    /\ WF_vars(Sleep)

-----------------------------------------------------------------------------
(* The planner alone, on payload sizes around the 100 MiB threshold and on  *)
(* connection counts around the clamp's ends                                *)

PlanSizes ==
    (0..MaxSmallSize)
      \cup { MIN_PARALLEL_SIZE - k : k \in 1..MaxSmallSize }
      \cup { MIN_PARALLEL_SIZE + k : k \in 0..MaxSmallSize }
      \cup { 2 * MIN_PARALLEL_SIZE + k * (MAX_CONNECTIONS - 1) : k \in 0..MaxSmallSize }

PlanConnections ==
    ((-1)..(MaxSlices + 1))
      \cup { MAX_CONNECTIONS - 1, MAX_CONNECTIONS, MAX_CONNECTIONS + 1 }

PlanInit ==
    /\ srv_name = "f"
    /\ srv_size \in { n + IV_SIZE : n \in PlanSizes }
    /\ srv_sum = Digest(Payload(srv_size))
    /\ display_file_name = "display"
    /\ file_name = srv_name
    /\ file_size = srv_size
    /\ unencrypted_checksum = srv_sum
    /\ temporary_files = {}
    /\ delete_flag = FALSE
    /\ num_connections \in PlanConnections
    /\ max_retries = 0
    /\ pc = "plan"
    /\ num_retries = 0
    /\ raised = NoErr
    /\ params = <<>>
    /\ th = <<>>
    /\ existing_size = <<>>
    /\ slice_err = <<>>
    /\ results = <<>>
    /\ in_order = TRUE
    /\ out = NoFile
    /\ sidecar = NoSum
    /\ tmp = <<>>
    /\ requests = <<>>
    /\ meta_requests = 0
    /\ attempts = 0
    /\ sleeps = 0
    /\ last_err = NoErr
    /\ runs = 1
    /\ ret = "none"
    /\ merged = FALSE
    /\ received_file_md5 = NoSum
    /\ total_size = 0
    /\ faults = 0
    /\ failures = 0

\* lines 82-107 with no output file on disk
PlanStep ==
    /\ pc = "plan"
    /\ total_size' = file_size - IV_SIZE
    /\ IF PlanRaises(total_size', num_connections)
       THEN pc' = "plan_raised" /\ params' = <<>>
       ELSE pc' = "planned" /\ params' = SlicePlan(total_size', num_connections)
    /\ UNCHANGED <<inputs, fields, loop, disk, temporary_files, th, existing_size,
                   slice_err, results, in_order, requests, meta_requests, runs, ret, merged,
                   received_file_md5, faults>>

PlanNext == PlanStep

PlanSpec == PlanInit /\ [][PlanNext]_vars

-----------------------------------------------------------------------------
(* Claims *)

\* the sum of the lengths of plan[lo..hi]
RECURSIVE SumLengthsOf(_, _, _)
SumLengthsOf(plan, lo, hi) ==
    IF lo > hi THEN 0
    ELSE IF lo = hi THEN plan[lo].length
    ELSE SumLengthsOf(plan, lo, (lo + hi) \div 2) + SumLengthsOf(plan, (lo + hi) \div 2 + 1, hi)

SumLengths(plan) == SumLengthsOf(plan, 1, Len(plan))

\* C2: for every payload size > 0 and every requested connection count
\* (0, negative and above 128 included) the plan partitions [0, totalSize):
\* the first slice starts at 0, each slice starts where the previous one
\* ends, every length is > 0, no two slices overlap, the lengths sum to
\* totalSize.
C2_PlanPartitions ==
    (pc = "planned" /\ total_size > 0) =>
        /\ Len(params) >= 1
        /\ params[1].start = 0
        /\ \A k \in DOMAIN params : params[k].length > 0
        /\ \A k \in 2..Len(params) :
              params[k].start = params[k - 1].start + params[k - 1].length
        /\ \A j, k \in DOMAIN params :
              j < k => params[j].start + params[j].length <= params[k].start
        /\ SumLengths(params) = total_size

\* a plan of 128 slices whose last slice is shorter than the others, asked
\* for with more than 128 connections
C2_Witness ==
    /\ pc = "planned"
    /\ num_connections > MAX_CONNECTIONS
    /\ Len(params) = MAX_CONNECTIONS
    /\ params[Len(params)].length < params[1].length

\* C3: the plan has as many slices as the effective connection count (1
\* below 100 MiB, else the requested count clamped to [1, 128]); all slices
\* but the last have length ceil(totalSize / connections), the last has
\* length totalSize - (connections - 1) * chunkLen, which is > 0 and
\* <= chunkLen.
C3_PlanShape ==
    pc = "planned" =>
        LET connections ==
                IF total_size < 100 * 1024 * 1024 THEN 1
                ELSE IF num_connections < 1 THEN 1
                ELSE IF num_connections > 128 THEN 128
                ELSE num_connections
            chunkLen == CHOOSE c \in (total_size \div connections)..(total_size \div connections + 1) :
                           c * connections >= total_size /\ (c - 1) * connections < total_size
            last == total_size - (connections - 1) * chunkLen
        IN  /\ Len(params) = connections
            /\ \A k \in 1..(Len(params) - 1) : params[k].length = chunkLen
            /\ params[Len(params)].length = last
            /\ last > 0
            /\ last <= chunkLen

\* a small payload asked for with several connections: one slice; and a
\* large one asked for with three: three slices, the last one shorter
C3_Witness ==
    /\ pc = "planned"
    /\ \/ total_size < MIN_PARALLEL_SIZE /\ num_connections > 1 /\ Len(params) = 1
       \/ /\ total_size > MIN_PARALLEL_SIZE
          /\ num_connections = 3
          /\ Len(params) = 3
          /\ params[3].length < params[1].length

WellFormed(check_sum) == check_sum.len = 32

\* C1: whenever download_file has returned normally and the expected
\* checksum is well-formed, the output file exists and the checksum of its
\* first totalSize bytes is the expected one, on every path (short-circuit,
\* merge, merge skipped).
C1_ReturnedMeansVerified ==
    (pc = "done" /\ WellFormed(unencrypted_checksum)) =>
        /\ out.exists
        /\ md5(out, total_size) = unencrypted_checksum

\* a two-slice download verified on the second attempt, after a failed first
C1_Witness ==
    /\ pc = "done"
    /\ ret = "verified"
    /\ merged
    /\ WellFormed(unencrypted_checksum)
    /\ Len(params) = 2
    /\ attempts = 2

\* C4: a slice fetch that finds its temporary file longer than the slice
\* discards it and asks for the whole slice: the Range header is
\* [start, start + length - 1].
C4_OversizeRefetchedFromStart ==
    \A i \in DOMAIN requests :
        \A r \in SeqRange(requests[i]) :
            existing_size[i] > params[i].length =>
                /\ r.first = params[i].start
                /\ r.last = params[i].start + params[i].length - 1

\* C5: in every attempt a fetch that finds e bytes on disk issues no request
\* and returns when e = length, and when 0 <= e < length issues exactly one
\* request, for [start + e, start + length - 1], and appends the body to
\* what the file already holds.
C5_Resume ==
    /\ [](pc = "inflight" =>
           \A i \in DOMAIN th :
              LET e == existing_size[i]
                  p == params[i]
              IN  th[i] # "ready" =>
                     /\ e = p.length => (requests[i] = <<>> /\ th[i] = "returned")
                     /\ (0 <= e /\ e < p.length) =>
                           requests[i] = << [first |-> p.start + e,
                                             last |-> p.start + p.length - 1] >>)
    /\ [][\A i \in DOMAIN th :
             (pc = "inflight" /\ th[i] = "ready" /\ i \in DOMAIN th' /\ th'[i] # "ready"
                /\ TmpSize(tmp, SliceName(params[i])) \in 0..params[i].length) =>
                /\ SliceName(params[i]) \in DOMAIN tmp'
                /\ Prefix(tmp'[SliceName(params[i])], Size(tmp[SliceName(params[i])]))
                      = tmp[SliceName(params[i])]
                /\ existing_size'[i] = Size(tmp[SliceName(params[i])])]_vars

\* in a second attempt a slice resumes behind the bytes the first attempt
\* stored, and another slice is found complete
C5_Witness ==
    /\ pc = "inflight"
    /\ attempts = 2
    /\ Len(params) = 2
    /\ \E i, j \in DOMAIN th :
          /\ th[i] = "returned" /\ existing_size[i] = params[i].length
          /\ th[j] = "returned" /\ existing_size[j] > 0
          /\ existing_size[j] < params[j].length
          /\ tmp[SliceName(params[j])] = << <<params[j].start, params[j].length>> >>

\* C6: a slice fetch returns only with its temporary file exactly as long
\* as the slice; a transfer that leaves any other size raises the slice
\* error (received, requested) and does not return.
C6_ReturnsOnlyExactSize ==
    [][\A i \in DOMAIN th :
          (pc = "inflight" /\ i \in DOMAIN th' /\ th'[i] # th[i]) =>
             LET file == SliceName(params[i])
                 length == params[i].length
             IN  /\ th'[i] = "returned" => TmpSize(tmp', file) = length
                 /\ TmpSize(tmp', file) # length => th'[i] = "raised"
                 /\ (th'[i] = "raised" /\ slice_err'[i].kind # "ConnectionError") =>
                       /\ TmpSize(tmp', file) # length
                       /\ slice_err'[i] = SliceError(TmpSize(tmp', file), length, attempts)]_vars

\* a fetch failed on a body one byte too long, another on a short body
C6_Witness ==
    /\ pc = "inflight"
    /\ Len(params) = 2
    /\ th[1] = "raised" /\ slice_err[1].kind = "slice" /\ slice_err[1].n1 > slice_err[1].n2
    /\ th[2] = "raised" /\ slice_err[2].kind = "slice" /\ slice_err[2].n1 < slice_err[2].n2

\* a download_file call that returns at the pre-check
ShortCircuits == pc = "attempt" /\ ret' = "shortcut" /\ WellFormed(unencrypted_checksum')

\* C7 as claimed: download_file called with the output file present and its
\* checksum equal to the well-formed expected one returns with no network
\* call and no slice fetch.
C7_ShortCircuitNoNetwork ==
    (pc = "done" /\ ret = "shortcut" /\ WellFormed(unencrypted_checksum)) =>
        /\ requests = <<>>
        /\ meta_requests = 0
        /\ th = <<>>

\* C7 as amended: such a call makes no file-data request and no slice
\* fetch; the one network call it can make is a single metadata request,
\* made exactly when the size or the checksum field is unset at the call;
\* a call that finds both set (a second call right after a successful one)
\* makes no request.
C7_ShortCircuitNoDataRequest ==
    [][ShortCircuits =>
          /\ pc' = "done"
          /\ requests' = <<>>
          /\ th' = <<>>
          /\ temporary_files' = temporary_files
          /\ disk' = disk
          /\ meta_requests' = IF file_size = NoSize \/ unencrypted_checksum = NoSum
                              THEN 1 ELSE 0]_vars

\* the second run, right after a verified download, ends at the pre-check
\* with no request of either kind
C7_Witness ==
    /\ pc = "done"
    /\ runs = 2
    /\ ret = "shortcut"
    /\ WellFormed(unencrypted_checksum)
    /\ sidecar = unencrypted_checksum
    /\ requests = <<>>
    /\ meta_requests = 0

\* C8: when the computed checksum of the assembled file differs from a
\* well-formed expected checksum, the attempt removes the output file and
\* raises an error holding the expected and the computed value, and writes
\* no sidecar.
C8_MismatchDeletesAndRaises ==
    [][(pc = "merge" /\ pc' # "merge" /\ received_file_md5' # NoSum
          /\ received_file_md5' # unencrypted_checksum
          /\ WellFormed(unencrypted_checksum)) =>
          /\ ~out'.exists
          /\ ret' = "raised"
          /\ last_err'.kind = "md5"
          /\ last_err'.exp = unencrypted_checksum
          /\ last_err'.got = received_file_md5'
          /\ last_err'.at = attempts
          /\ sidecar' = sidecar]_vars

\* a merged two-slice file with foreign bytes in it was rejected and removed
C8_Witness ==
    /\ pc \in {"sleep", "raised"}
    /\ merged
    /\ Len(params) = 2
    /\ last_err.kind = "md5"
    /\ last_err.got # last_err.exp
    /\ last_err.got.len = 32
    /\ WellFormed(last_err.exp)
    /\ ~out.exists

\* C9: with max_retries = N >= 0 and N failed attempts followed by a
\* successful one, the loop makes N + 1 attempts and N sleeps, each sleep
\* after a failed attempt and before the next one, and after the success
\* starts nothing more.
C9_RetryThenSuccess ==
    /\ []((pc = "done" /\ failures = max_retries) =>
             /\ attempts = max_retries + 1
             /\ sleeps = max_retries)
    /\ [][(runs' = runs /\ sleeps' # sleeps) =>
             /\ ret = "raised"
             /\ sleeps' = sleeps + 1
             /\ attempts = sleeps'
             /\ attempts' = attempts
             /\ pc' = "attempt"]_vars
    /\ [][(runs' = runs /\ attempts' # attempts) =>
             /\ attempts' = attempts + 1
             /\ sleeps = attempts
             /\ failures = attempts]_vars
    /\ [][(runs' = runs /\ pc = "done") => (pc' = "done" /\ UNCHANGED vars)]_vars

\* the last allowed attempt succeeded after max_retries > 0 failures
C9_Witness ==
    /\ pc = "done"
    /\ max_retries > 0
    /\ failures = max_retries
    /\ attempts = max_retries + 1
    /\ sleeps = max_retries
    /\ ret = "verified"

\* C10: with max_retries = N >= 0, when N + 1 attempts have failed no
\* further attempt starts and download_file_retry raises the exception of
\* the last attempt itself.
C10_ExhaustedRaisesLast ==
    /\ [](pc = "raised" =>
             /\ attempts = max_retries + 1
             /\ failures = max_retries + 1
             /\ sleeps = max_retries
             /\ raised # NoErr
             /\ raised = last_err
             /\ raised.at = attempts
             /\ raised.kind = "md5" =>
                   (raised.got = received_file_md5 /\ raised.exp = unencrypted_checksum)
             /\ raised.kind = "slice" => FirstRaised(th) # 0
             /\ FirstRaised(th) # 0 => raised = slice_err[FirstRaised(th)])
    /\ [][pc = "raised" => UNCHANGED vars]_vars
    /\ [][(pc' = "raised" /\ pc # "raised") =>
             (num_retries = max_retries /\ failures' = max_retries + 1)]_vars

\* the second of two allowed attempts failed on a checksum mismatch after
\* the first failed on a slice
C10_Witness ==
    /\ pc = "raised"
    /\ max_retries = 1
    /\ attempts = 2
    /\ raised.kind = "md5"
    /\ raised.at = 2

\* C11: with max_retries < 0 the loop never raises: every failed attempt,
\* however many have failed before it, is followed by one sleep and then by
\* another attempt, and the loop ends only with a successful attempt.
C11_UnlimitedRetries ==
    /\ [](max_retries < 0 =>
             /\ pc # "raised"
             /\ pc # "crashed" => raised = NoErr    \* "crashed": raised before the loop
             /\ num_retries # max_retries
             /\ num_retries = sleeps
             /\ pc = "done" => (ret # "raised" /\ attempts = failures + 1))
    /\ [][(max_retries < 0 /\ failures' # failures /\ runs' = runs) =>
             /\ failures' = failures + 1
             /\ pc' = "sleep"
             /\ ret' = "raised"]_vars
    /\ [][(max_retries < 0 /\ pc = "sleep") =>
             /\ pc' = "attempt"
             /\ sleeps' = sleeps + 1
             /\ attempts' = attempts]_vars
    /\ [][(max_retries < 0 /\ pc = "attempt") =>
             /\ attempts' = attempts + 1
             /\ sleeps = failures
             /\ attempts = failures]_vars

\* an unlimited run verified its file after more failed attempts than any
\* limited run of the model is allowed
C11_Witness ==
    /\ max_retries < 0
    /\ pc = "done"
    /\ ret = "verified"
    /\ failures > MaxRetries
    /\ sleeps = failures
    /\ attempts = failures + 1

\* C12: attempts never overlap: no slice fetch is executing whenever the
\* caller is outside the pool's with block, so none of attempt k is executing
\* when attempt k + 1 begins, also when attempt k failed on one slice while
\* others were in flight; a fetch executes only within its own attempt.
C12_AttemptsNeverOverlap ==
    /\ [](pc # "inflight" => \A k \in DOMAIN th : th[k] # "ready")
    /\ [][attempts' # attempts => \A k \in DOMAIN th : th[k] # "ready"]_vars
    /\ [][\A k \in DOMAIN th :
             (th[k] = "ready" /\ k \in DOMAIN th' /\ th'[k] # "ready") =>
                /\ pc = "inflight"
                /\ pc' = "inflight"
                /\ attempts' = attempts
                /\ params' = params]_vars

\* the first attempt failed on slice 1 while slice 2 was in flight; slice 2
\* has ended since, and the second attempt is about to begin
C12_Witness ==
    /\ pc = "attempt"
    /\ attempts = 1
    /\ sleeps = 1
    /\ Len(th) = 2
    /\ th[1] = "raised"
    /\ th[2] = "returned"
    /\ in_order

\* C13: whatever the order in which the slice fetches ended, the list given
\* to merge_bin_files_on_disk holds the plan's slice files in strictly
\* ascending order of start offset, each exactly once.
C13_MergeInputInPlanOrder ==
    pc = "merge" =>
        /\ Len(results) = Len(params)
        /\ \A k \in DOMAIN results : results[k] = SliceName(params[k])
        /\ \A k \in 2..Len(results) : results[k - 1][1] < results[k][1]
        /\ \A k \in DOMAIN params :
              Cardinality({j \in DOMAIN results : results[j] = SliceName(params[k])}) = 1

\* a two-slice file was merged and verified after slice 2 ended before slice 1
C13_Witness ==
    /\ pc = "done"
    /\ ret = "verified"
    /\ merged
    /\ Len(params) = 2
    /\ ~in_order
    /\ out = File(Payload(srv_size))

\* C14: when the expected checksum is not 32 characters long, an attempt
\* whose slices were all fetched and merged succeeds whatever the computed
\* checksum is: the merged output file is kept and nothing is raised.
C14_MalformedChecksumAccepted ==
    [][(pc = "merge" /\ merged' /\ ~WellFormed(unencrypted_checksum)) =>
          /\ pc' = "done"
          /\ ret' = "accepted"
          /\ out'.exists
          /\ received_file_md5' # NoSum
          /\ raised' = raised
          /\ last_err' = last_err
          /\ failures' = failures]_vars

\* a merged file holding foreign bytes was accepted against an expected
\* checksum that is no digest
C14_Witness ==
    /\ pc = "done"
    /\ ret = "accepted"
    /\ merged
    /\ unencrypted_checksum.len = 0
    /\ out.exists
    /\ \E k \in DOMAIN out.data : out.data[k][1] = Bad
    /\ received_file_md5 # Digest(Payload(srv_size))

\* C15: within an attempt the merge runs only after every slice fetch has
\* returned and the part files' sizes sum to totalSize; when a slice fetch
\* has failed, the attempt runs neither the merge nor the checksum, leaves
\* the output file and the sidecar as they were, and raises that slice's
\* exception.
C15_MergeOnlyAfterAllSlices ==
    /\ [][(merged' /\ ~merged) =>
             /\ pc = "merge"
             /\ \A k \in DOMAIN th : th[k] = "returned"
             /\ Len(results) = Len(params)
             /\ \A f \in SeqRange(results) : f \in DOMAIN tmp
             /\ SumSizes(tmp, results) = total_size]_vars
    /\ []((\E k \in DOMAIN th : th[k] = "raised") =>
             /\ ~merged
             /\ received_file_md5 = NoSum
             /\ pc \in {"inflight", "sleep", "raised", "attempt"})
    /\ [][(pc = "inflight" /\ pc' # "inflight" /\ \E k \in DOMAIN th : th[k] = "raised") =>
             /\ pc' \in {"sleep", "raised"}
             /\ ret' = "raised"
             /\ failures' = failures + 1
             /\ \E k \in DOMAIN th : th[k] = "raised" /\ last_err' = slice_err[k]
             /\ last_err'.at = attempts
             /\ out' = out
             /\ sidecar' = sidecar]_vars

\* the second slice of an attempt failed after the first had returned: the
\* attempt raised the second slice's error and the stale output file is
\* still there
C15_Witness ==
    /\ pc = "sleep"
    /\ Len(th) = 2
    /\ th[1] = "returned"
    /\ th[2] = "raised"
    /\ last_err = slice_err[2]
    /\ last_err.kind = "slice"
    /\ ~merged
    /\ out = File(Foreign(srv_size))
    /\ sidecar = NoSum

\* C16: when every slice fetch of an attempt has returned but the part
\* files' sizes do not sum to totalSize, the attempt raises: no attempt ends
\* successfully past the size check without having merged, whether the
\* expected checksum is well-formed or not.
C16_SizeMismatchFailsAttempt ==
    [][(pc = "merge" /\ pc' # "merge" /\ ~merged') =>
          /\ ret' = "raised"
          /\ pc' \in {"sleep", "raised"}
          /\ failures' = failures + 1]_vars

\* C17: when the last allowed attempt fails and the purge flag is set, every
\* registered temporary file that is still on disk is removed before the
\* exception is re-raised, also when some registered file is already absent.
C17_PurgeRemovesAllRegistered ==
    [][(pc' = "raised" /\ pc # "raised" /\ delete_flag) =>
          \A f \in temporary_files' : f \notin DOMAIN tmp']_vars

\* C18: a metadata hydration either raises and leaves the four fields as
\* they were, or sets all four fields from its one response; no hydration
\* completes with a field still unset, and after a completed hydration no
\* accessor asks for the metadata again.
C18_HydrationAllOrNothing ==
    [][fields' # fields =>
          /\ display_file_name' # NoName
          /\ file_name' # NoName
          /\ file_size' # NoSize
          /\ unencrypted_checksum' # NoSum]_vars

\* C19: the sidecar is written only in an attempt whose expected checksum is
\* well-formed and equal to the checksum computed over the first totalSize
\* bytes of the output file, and it holds that checksum.
C19_SidecarIsVerified ==
    [][sidecar' # sidecar =>
          /\ WellFormed(unencrypted_checksum)
          /\ out'.exists
          /\ md5(out', total_size) = unencrypted_checksum
          /\ sidecar' = unencrypted_checksum]_vars

\* the edges of the caller's position within and around one attempt
PhaseEdges ==
    { <<"start", "attempt">>, <<"start", "skipped">>, <<"start", "crashed">>,
      <<"attempt", "inflight">>, <<"attempt", "done">>,
      <<"inflight", "merge">>, <<"merge", "done">>,
      <<"attempt", "sleep">>, <<"inflight", "sleep">>, <<"merge", "sleep">>,
      <<"attempt", "raised">>, <<"inflight", "raised">>, <<"merge", "raised">>,
      <<"sleep", "attempt">>, <<"done", "start">> }

\* C20: with max_retries >= 0 and every attempt ending, a run of the loop
\* ends in exactly one of done (an attempt succeeded) and raised (the failure
\* is raised), after at most max_retries + 1 attempts; an attempt goes
\* through plan, slices in flight, merge and verification in that order; a
\* failure leads to a new attempt while retries remain and to raised
\* otherwise; after the end of the run nothing more happens in it.
C20_RunTerminates ==
    /\ (max_retries >= 0 /\ pc = "attempt") ~> (pc \in {"done", "raised"})
    /\ [](max_retries >= 0 =>
             /\ attempts <= max_retries + 1
             /\ num_retries <= max_retries
             /\ pc = "done" => (raised = NoErr /\ ret \in {"shortcut", "verified", "accepted"})
             /\ pc = "raised" => (raised # NoErr /\ ret = "raised"))
    /\ [][pc' # pc => <<pc, pc'>> \in PhaseEdges]_vars
    /\ [][(max_retries >= 0 /\ failures' # failures /\ runs' = runs) =>
             /\ pc \in {"attempt", "inflight", "merge"}
             /\ IF num_retries < max_retries THEN pc' = "sleep" ELSE pc' = "raised"]_vars
    /\ [][(max_retries >= 0 /\ merged' # merged /\ merged') => pc = "merge"]_vars
    /\ [][(max_retries >= 0 /\ pc \in {"done", "raised"} /\ runs' = runs) =>
             UNCHANGED vars]_vars

\* a run allowed one retry ended with a success after its first attempt had
\* failed at the verification
C20_Witness ==
    /\ max_retries = 1
    /\ pc = "done"
    /\ runs = 1
    /\ attempts = 2
    /\ sleeps = 1
    /\ last_err.kind = "md5"
    /\ last_err.at = 1
    /\ merged

====
